---- MODULE Spec2Model ----
(***************************************************************************)
(* tempest/clients.py: the Manager that wires one auth provider and every  *)
(* service client together, and the free functions                         *)
(* get_auth_provider_class / get_auth_provider.                            *)
(*                                                                         *)
(* One behaviour is one top-level call made against one configuration      *)
(* (CONF): either Manager(credentials, service, scope) or                  *)
(* get_auth_provider(credentials, pre_auth, scope).  pc is the position of *)
(* the (single-threaded) interpreter inside that call.                     *)
(***************************************************************************)
EXTENDS Integers, Sequences, FiniteSets, TLC

VARIABLES
    CONF,               \* the global configuration store (tempest.config.CONF)
    pc,                 \* position inside the running call
    credentials,        \* argument of the running call
    scope,              \* argument of the running call
    service,            \* Manager's `service` argument
    pre_auth,           \* get_auth_provider's `pre_auth` argument
    identity_uri,       \* local of Manager.__init__ (line 61)
    client_parameters,  \* value returned by _prepare_configuration
    parameters,         \* self.parameters
    auth_provider,      \* self.auth_provider
    attrs,              \* client attributes of the Manager: name -> client
    writes,             \* name -> number of assignments to the attribute
    trace,              \* functions / steps entered so far, in order
    fetches,            \* config.service_client_config(<service>) calls, in order
    log,                \* LOG.warn messages, in order
    error,              \* the exception raised out of the call, or NoError
    gap,                \* locals of get_auth_provider
    providers           \* every auth provider object constructed so far

vars == <<CONF, pc, credentials, scope, service, pre_auth, identity_uri,
          client_parameters, parameters, auth_provider, attrs, writes, trace,
          fetches, log, error, gap, providers>>

-----------------------------------------------------------------------------
(* Bounds                                                                  *)

\* how many services may lack a configuration section at once
MaxMissing == 1

-----------------------------------------------------------------------------
(* Values                                                                  *)

None == "None"
Unset == ""
NoError == "NoError"
NoProvider == [id |-> 0]
EmptyMap == [x \in {} |-> 0]

CredentialKinds ==
    {None, "KeystoneV2Credentials", "KeystoneV3Credentials", "TestResources"}
Scopes == {"project", "domain"}
ServiceArgs == {None, "compute"}

\* isinstance(credentials, cls)
isinstance(c, cls) == c = cls

\* Python truthiness of a configuration string
Truthy(s) == s # Unset /\ s # None

\* the value of a numeric option: an integer, or None
PyInt(n) == [t |-> "int", v |-> n]
PyNone == [t |-> "NoneType", v |-> 0]

\* Python truthiness of such a value (`if _value:`)
TruthyValue(x) == x.t = "int" /\ x.v # 0

Range(s) == {s[i] : i \in DOMAIN s}

\* dict(a); dict.update(b)
Update(a, b) ==
    [k \in DOMAIN a \cup DOMAIN b |-> IF k \in DOMAIN b THEN b[k] ELSE a[k]]

\* d[k] = v on a copy of d
SetItem(d, k, v) == [x \in DOMAIN d \cup {k} |-> IF x = k THEN v ELSE d[x]]

\* service.split('.')[0] for the module names Tempest registers
SplitFirst(module) ==
    CASE module = "compute" -> "compute"
      [] module = "identity.v2" -> "identity"
      [] module = "identity.v3" -> "identity"
      [] module = "image.v1" -> "image"
      [] module = "image.v2" -> "image"
      [] module = "network" -> "network"
      [] module = "object-storage" -> "object-storage"
      [] module = "volume.v1" -> "volume"
      [] module = "volume.v2" -> "volume"
      [] module = "volume.v3" -> "volume"

\* service_clients.tempest_modules(): the service modules the Manager builds
\* clients from
tempest_modules ==
    <<"compute", "identity.v2", "identity.v3", "image.v1", "image.v2",
      "network", "object-storage", "volume.v1", "volume.v2", "volume.v3">>

Services == {SplitFirst(m) : m \in Range(tempest_modules)}

Reverse(s) == [i \in 1..Len(s) |-> s[Len(s) + 1 - i]]

\* a set is iterated in an order the program does not control
IterationOrders == {tempest_modules, Reverse(tempest_modules)}

-----------------------------------------------------------------------------
(* The configuration store                                                 *)

Configurations ==
    [ identity : [uri : {Unset, "http://keystone:5000/v2.0"},
                  uri_v3 : {Unset, "http://keystone:5000/v3"}],
      identity_feature_enabled : [api_v2 : BOOLEAN, api_v3 : BOOLEAN],
      service_available : [glance : BOOLEAN],
      sections : {Services \ m : m \in {x \in SUBSET Services :
                                             Cardinality(x) <= MaxMissing}},
      order : IterationOrders,
      volume : {[build_interval |-> "set", build_timeout |-> "zero"]} ]

\* what the volume service's mapping may hold for an optional timeout
TimingKinds == {"missing", "None", "zero", "set"}

\* the configurations that differ in the volume service's timeouts
TimingConfigurations ==
    [ identity : [uri : {Unset, "http://keystone:5000/v2.0"},
                  uri_v3 : {Unset, "http://keystone:5000/v3"}],
      identity_feature_enabled : [api_v2 : BOOLEAN, api_v3 : BOOLEAN],
      service_available : [glance : BOOLEAN],
      sections : {Services, Services \ {"volume"}},
      order : {tempest_modules},
      volume : [build_interval : TimingKinds, build_timeout : TimingKinds] ]

\* config.service_client_config(): the parameters every client takes
default_params ==
    [disable_ssl_certificate_validation |-> TRUE, ca_certs |-> None,
     trace_requests |-> Unset]

\* the value an optional timeout of the volume service has when it is there
TimingValue(kind, set) ==
    CASE kind = "None" -> PyNone
      [] kind = "zero" -> PyInt(0)
      [] kind = "set" -> PyInt(set)

\* CONF.<service>.build_interval / build_timeout
BuildInterval(s) ==
    IF s = "volume" THEN TimingValue(CONF.volume.build_interval, 5) ELSE PyInt(1)
BuildTimeout(s) ==
    IF s = "volume" THEN TimingValue(CONF.volume.build_timeout, 600)
    ELSE PyInt(300)

\* the timeouts the mapping of service s holds
Timeouts(s) ==
    LET keys == {k \in {"build_interval", "build_timeout"} :
                     s # "volume" \/ CONF.volume[k] # "missing"}
    IN [k \in keys |-> IF k = "build_interval" THEN BuildInterval(s)
                                                ELSE BuildTimeout(s)]

\* config.service_client_config(service_name) for a service that has a
\* configuration section
service_client_config(s) ==
    Update(Update(default_params,
                  [service |-> s, region |-> "RegionOne",
                   endpoint_type |-> "publicURL"]),
           Timeouts(s))

\* Manager.default_params_with_timeout_values
default_params_with_timeout_values ==
    Update([build_interval |-> BuildInterval("compute"),
            build_timeout |-> BuildTimeout("compute")],
           default_params)

-----------------------------------------------------------------------------
(* The client attributes each builder assigns, in the order of the code    *)

\* one `self.<attr> = <cls>(self.auth_provider, <kw>, **params)` statement
EK(attr, cls, kw) == [attr |-> attr, cls |-> cls, kw |-> kw]
E(attr, cls) == EK(attr, cls, {})

\* _set_compute_clients: the clients built from params (lines 182-241)
ComputeClients ==
    <<E("agents_client", "compute.AgentsClient"),
      E("compute_networks_client", "compute.NetworksClient"),
      E("migrations_client", "compute.MigrationsClient"),
      E("security_group_default_rules_client", "compute.SecurityGroupDefaultRulesClient"),
      E("certificates_client", "compute.CertificatesClient"),
      EK("servers_client", "compute.ServersClient",
         {<<"enable_instance_password",
           "CONF.compute_feature_enabled.enable_instance_password">>}),
      E("server_groups_client", "compute.ServerGroupsClient"),
      E("limits_client", "compute.LimitsClient"),
      E("compute_images_client", "compute.ImagesClient"),
      E("keypairs_client", "compute.KeyPairsClient"),
      E("quotas_client", "compute.QuotasClient"),
      E("quota_classes_client", "compute.QuotaClassesClient"),
      E("flavors_client", "compute.FlavorsClient"),
      E("extensions_client", "compute.ExtensionsClient"),
      E("floating_ip_pools_client", "compute.FloatingIPPoolsClient"),
      E("floating_ips_bulk_client", "compute.FloatingIPsBulkClient"),
      E("compute_floating_ips_client", "compute.FloatingIPsClient"),
      E("compute_security_group_rules_client", "compute.SecurityGroupRulesClient"),
      E("compute_security_groups_client", "compute.SecurityGroupsClient"),
      E("interfaces_client", "compute.InterfacesClient"),
      E("fixed_ips_client", "compute.FixedIPsClient"),
      E("availability_zone_client", "compute.AvailabilityZoneClient"),
      E("aggregates_client", "compute.AggregatesClient"),
      E("services_client", "compute.ServicesClient"),
      E("tenant_usages_client", "compute.TenantUsagesClient"),
      E("hosts_client", "compute.HostsClient"),
      E("hypervisor_client", "compute.HypervisorClient"),
      E("instance_usages_audit_log_client", "compute.InstanceUsagesAuditLogClient"),
      E("tenant_networks_client", "compute.TenantNetworksClient"),
      E("baremetal_nodes_client", "compute.BaremetalNodesClient")>>

\* _set_compute_clients: the clients built from params_volume (lines 251-256)
VolumeProxyClients ==
    <<E("volumes_extensions_client", "compute.VolumesClient"),
      E("compute_versions_client", "compute.VersionsClient"),
      E("snapshots_extensions_client", "compute.SnapshotsClient")>>

\* _set_identity_clients: built from params_v2_admin (lines 264-275)
IdentityV2AdminClients ==
    <<E("endpoints_client", "identity.v2.EndpointsClient"),
      E("identity_client", "identity.v2.IdentityClient"),
      E("tenants_client", "identity.v2.TenantsClient"),
      E("roles_client", "identity.v2.RolesClient"),
      E("users_client", "identity.v2.UsersClient"),
      E("identity_services_client", "identity.v2.ServicesClient")>>

\* _set_identity_clients: built from params_v2_public (lines 281-286)
IdentityV2PublicClients ==
    <<E("identity_public_client", "identity.v2.IdentityClient"),
      E("tenants_public_client", "identity.v2.TenantsClient"),
      E("users_public_client", "identity.v2.UsersClient")>>

\* _set_identity_clients: built from params_v3 (lines 292-315)
IdentityV3Clients ==
    <<E("domains_client", "identity.v3.DomainsClient"),
      E("identity_v3_client", "identity.v3.IdentityClient"),
      E("trusts_client", "identity.v3.TrustsClient"),
      E("users_v3_client", "identity.v3.UsersClient"),
      E("endpoints_v3_client", "identity.v3.EndPointsClient"),
      E("roles_v3_client", "identity.v3.RolesClient"),
      E("identity_services_v3_client", "identity.v3.ServicesClient"),
      E("policies_client", "identity.v3.PoliciesClient"),
      E("projects_client", "identity.v3.ProjectsClient"),
      E("regions_client", "identity.v3.RegionsClient"),
      E("credentials_client", "identity.v3.CredentialsClient"),
      E("groups_client", "identity.v3.GroupsClient")>>

\* _set_volume_clients (lines 339-382)
VolumeClients ==
    <<E("volume_qos_client", "volume.v1.QosSpecsClient"),
      E("volume_qos_v2_client", "volume.v2.QosSpecsClient"),
      E("volume_services_client", "volume.v1.ServicesClient"),
      E("volume_services_v2_client", "volume.v2.ServicesClient"),
      E("backups_client", "volume.v1.BackupsClient"),
      E("backups_v2_client", "volume.v2.BackupsClient"),
      E("snapshots_client", "volume.v1.SnapshotsClient"),
      E("snapshots_v2_client", "volume.v2.SnapshotsClient"),
      EK("volumes_client", "volume.v1.VolumesClient",
         {<<"default_volume_size", "CONF.volume.volume_size">>}),
      EK("volumes_v2_client", "volume.v2.VolumesClient",
         {<<"default_volume_size", "CONF.volume.volume_size">>}),
      E("volume_messages_client", "volume.v3.MessagesClient"),
      E("volume_types_client", "volume.v1.TypesClient"),
      E("volume_types_v2_client", "volume.v2.TypesClient"),
      E("volume_hosts_client", "volume.v1.HostsClient"),
      E("volume_hosts_v2_client", "volume.v2.HostsClient"),
      E("volume_quotas_client", "volume.v1.QuotasClient"),
      E("volume_quotas_v2_client", "volume.v2.QuotasClient"),
      E("volumes_extension_client", "volume.v1.ExtensionsClient"),
      E("volumes_v2_extension_client", "volume.v2.ExtensionsClient"),
      E("volume_availability_zone_client", "volume.v1.AvailabilityZoneClient"),
      E("volume_v2_availability_zone_client", "volume.v2.AvailabilityZoneClient")>>

\* _set_object_storage_clients (lines 388-393)
ObjectStorageClients ==
    <<E("account_client", "object_storage.AccountClient"),
      E("container_client", "object_storage.ContainerClient"),
      E("object_client", "object_storage.ObjectClient")>>

\* _set_image_clients (lines 163-177)
ImageClients ==
    <<E("image_client", "image.v1.ImagesClient"),
      E("image_member_client", "image.v1.ImageMembersClient"),
      E("image_client_v2", "image.v2.ImagesClient"),
      E("image_member_client_v2", "image.v2.ImageMembersClient"),
      E("namespaces_client", "image.v2.NamespacesClient"),
      E("resource_types_client", "image.v2.ResourceTypesClient"),
      E("schemas_client", "image.v2.SchemasClient")>>

\* NetworkClients changed: the network quotas client takes the name of the
\* compute quotas client
NetworkClientsNameClash ==
    <<E("network_agents_client", "network.AgentsClient"),
      E("network_extensions_client", "network.ExtensionsClient"),
      E("networks_client", "network.NetworksClient"),
      E("subnetpools_client", "network.SubnetpoolsClient"),
      E("subnets_client", "network.SubnetsClient"),
      E("ports_client", "network.PortsClient"),
      E("quotas_client", "network.QuotasClient"),
      E("floating_ips_client", "network.FloatingIPsClient"),
      E("metering_labels_client", "network.MeteringLabelsClient"),
      E("metering_label_rules_client", "network.MeteringLabelRulesClient"),
      E("routers_client", "network.RoutersClient"),
      E("security_group_rules_client", "network.SecurityGroupRulesClient"),
      E("security_groups_client", "network.SecurityGroupsClient"),
      E("network_versions_client", "network.NetworkVersionsClient")>>

\* _set_network_clients (lines 131-158)
NetworkClients ==
    <<E("network_agents_client", "network.AgentsClient"),
      E("network_extensions_client", "network.ExtensionsClient"),
      E("networks_client", "network.NetworksClient"),
      E("subnetpools_client", "network.SubnetpoolsClient"),
      E("subnets_client", "network.SubnetsClient"),
      E("ports_client", "network.PortsClient"),
      E("network_quotas_client", "network.QuotasClient"),
      E("floating_ips_client", "network.FloatingIPsClient"),
      E("metering_labels_client", "network.MeteringLabelsClient"),
      E("metering_label_rules_client", "network.MeteringLabelRulesClient"),
      E("routers_client", "network.RoutersClient"),
      E("security_group_rules_client", "network.SecurityGroupRulesClient"),
      E("security_groups_client", "network.SecurityGroupsClient"),
      E("network_versions_client", "network.NetworkVersionsClient")>>

-----------------------------------------------------------------------------
(* Objects                                                                 *)

\* <cls>(auth, <kw>, **params): a service client; auth is the id of the auth
\* provider it was given (0: it was given none)
Client(e, auth, params) ==
    [cls |-> e.cls, auth |-> auth, kw |-> e.kw, params |-> params]

\* the assignments of `list`, in order, on the attribute namespace a
RECURSIVE SetAttrs(_, _, _, _)
SetAttrs(a, list, auth, params) ==
    IF list = <<>> THEN a
    ELSE SetAttrs(SetItem(a, Head(list).attr, Client(Head(list), auth, params)),
                  Tail(list), auth, params)

\* the number of assignments each attribute has received, after those of `list`
RECURSIVE CountWrites(_, _)
CountWrites(w, list) ==
    IF list = <<>> THEN w
    ELSE LET n == Head(list).attr
         IN CountWrites(SetItem(w, n, (IF n \in DOMAIN w THEN w[n] ELSE 0) + 1),
                        Tail(list))

\* auth_provider_class(credentials, auth_url, scope=scope, **params)
AuthProvider(cls, c, url, sc, params) ==
    [cls |-> cls, credentials |-> c, auth_url |-> url, scope |-> sc,
     params |-> params, set_auth |-> 0]

-----------------------------------------------------------------------------
(* Free functions                                                          *)

\* get_auth_provider_class changed: the two identity URLs are swapped
get_auth_provider_class_swapped(c) ==
    IF isinstance(c, "KeystoneV3Credentials")
    THEN <<"KeystoneV3AuthProvider", CONF.identity.uri>>
    ELSE <<"KeystoneV2AuthProvider", CONF.identity.uri_v3>>

\* get_auth_provider_class(credentials): <<provider class, identity URL>>
get_auth_provider_class(c) ==
    IF isinstance(c, "KeystoneV3Credentials")
    THEN <<"KeystoneV3AuthProvider", CONF.identity.uri_v3>>
    ELSE <<"KeystoneV2AuthProvider", CONF.identity.uri>>

-----------------------------------------------------------------------------
(* Manager._prepare_configuration                                          *)

\* the loop over service_clients.tempest_modules(); acc holds the local
\* `configuration`, the service_client_config calls made and the warnings
RECURSIVE PrepareLoop(_, _, _)
PrepareLoop(modules, sections, acc) ==
    IF modules = <<>> THEN acc
    ELSE LET module == Head(modules)
             service_for_config == SplitFirst(module)
         IN IF service_for_config \in DOMAIN acc.configuration
            THEN PrepareLoop(Tail(modules), sections, acc)
            ELSE IF service_for_config \in sections
            THEN PrepareLoop(Tail(modules), sections,
                     [acc EXCEPT
                        !.configuration =
                            SetItem(@, service_for_config,
                                    service_client_config(service_for_config)),
                        !.fetches = Append(@, service_for_config)])
            ELSE \* config.service_client_config raises UnknownServiceClient
                 PrepareLoop(Tail(modules), sections,
                     [acc EXCEPT
                        !.fetches = Append(@, service_for_config),
                        !.log = Append(@, module)])

\* _prepare_configuration changed: the try statement encloses the loop, so the
\* first UnknownServiceClient ends it
RECURSIVE PrepareLoopAbort(_, _, _)
PrepareLoopAbort(modules, sections, acc) ==
    IF modules = <<>> THEN acc
    ELSE LET module == Head(modules)
             service_for_config == SplitFirst(module)
         IN IF service_for_config \in DOMAIN acc.configuration
            THEN PrepareLoopAbort(Tail(modules), sections, acc)
            ELSE IF service_for_config \in sections
            THEN PrepareLoopAbort(Tail(modules), sections,
                     [acc EXCEPT
                        !.configuration =
                            SetItem(@, service_for_config,
                                    service_client_config(service_for_config)),
                        !.fetches = Append(@, service_for_config)])
            ELSE [acc EXCEPT !.fetches = Append(@, service_for_config),
                             !.log = Append(@, module)]

_prepare_configuration_abort(modules, sections) ==
    PrepareLoopAbort(modules, sections,
                     [configuration |-> EmptyMap, fetches |-> <<>>, log |-> <<>>])

\* _prepare_configuration changed: no `not in configuration` test, so every
\* versioned module fetches its service's mapping again
RECURSIVE PrepareLoopRefetch(_, _, _)
PrepareLoopRefetch(modules, sections, acc) ==
    IF modules = <<>> THEN acc
    ELSE LET module == Head(modules)
             service_for_config == SplitFirst(module)
         IN IF service_for_config \in sections
            THEN PrepareLoopRefetch(Tail(modules), sections,
                     [acc EXCEPT
                        !.configuration =
                            SetItem(@, service_for_config,
                                    service_client_config(service_for_config)),
                        !.fetches = Append(@, service_for_config)])
            ELSE PrepareLoopRefetch(Tail(modules), sections,
                     [acc EXCEPT
                        !.fetches = Append(@, service_for_config),
                        !.log = Append(@, module)])

_prepare_configuration_refetch(modules, sections) ==
    PrepareLoopRefetch(modules, sections,
                       [configuration |-> EmptyMap, fetches |-> <<>>, log |-> <<>>])

_prepare_configuration(modules, sections) ==
    PrepareLoop(modules, sections,
                [configuration |-> EmptyMap, fetches |-> <<>>, log |-> <<>>])

-----------------------------------------------------------------------------
(* Initial state: a configuration, and no call made yet                    *)

Init ==
    /\ CONF \in Configurations
    /\ pc = "idle"
    /\ credentials = None
    /\ scope = "project"
    /\ service = None
    /\ pre_auth = FALSE
    /\ identity_uri = Unset
    /\ client_parameters = EmptyMap
    /\ parameters = EmptyMap
    /\ auth_provider = 0
    /\ attrs = EmptyMap
    /\ writes = EmptyMap
    /\ trace = <<>>
    /\ fetches = <<>>
    /\ log = <<>>
    /\ error = NoError
    /\ gap = [default_params |-> EmptyMap, auth_provider_class |-> None,
              auth_url |-> Unset, _auth_provider |-> 0]
    /\ providers = <<>>

\* `raise e`: the exception leaves the running call
Raise(e) == error' = e /\ pc' = "raised"

\* the running function is entered
Enter(f) == trace' = Append(trace, f)

-----------------------------------------------------------------------------
(* Manager.__init__                                                        *)

\* lines 53-61: the call, and the identity URL that goes with the credentials
Manager__init__(c, svc, sc) ==
    /\ pc = "idle"
    /\ credentials' = c
    /\ service' = svc
    /\ scope' = sc
    /\ identity_uri' = get_auth_provider_class(c)[2]
    /\ trace' = trace \o <<"Manager.__init__", "get_auth_provider_class">>
    /\ pc' = "_prepare_configuration"
    /\ UNCHANGED <<CONF, pre_auth, client_parameters, parameters, auth_provider,
                   attrs, writes, fetches, log, error, gap, providers>>

\* PrepareConfiguration changed: the Manager keeps the mapping itself and runs
\* the builders before the superclass constructor
PrepareConfigurationBuildersFirst ==
    /\ pc = "_prepare_configuration"
    /\ Enter("_prepare_configuration")
    /\ LET r == _prepare_configuration(CONF.order, CONF.sections)
       IN /\ client_parameters' = r.configuration
          /\ fetches' = fetches \o r.fetches
          /\ log' = log \o r.log
    /\ pc' = "_set_compute_clients"
    /\ parameters' = _prepare_configuration(CONF.order, CONF.sections).configuration
    /\ UNCHANGED <<CONF, credentials, scope, service, pre_auth, identity_uri,
                   auth_provider, attrs, writes, error, gap,
                   providers>>

\* line 65: the argument client_parameters=self._prepare_configuration() is
\* evaluated before ServiceClients.__init__ is entered
PrepareConfiguration ==
    /\ pc = "_prepare_configuration"
    /\ Enter("_prepare_configuration")
    /\ LET r == _prepare_configuration(CONF.order, CONF.sections)
       IN /\ client_parameters' = r.configuration
          /\ fetches' = fetches \o r.fetches
          /\ log' = log \o r.log
    /\ pc' = "ServiceClients.__init__"
    /\ UNCHANGED <<CONF, credentials, scope, service, pre_auth, identity_uri,
                   parameters, auth_provider, attrs, writes, error, gap,
                   providers>>

\* lines 62-65: super(Manager, self).__init__(credentials, identity_uri, scope,
\* region, client_parameters): null credentials are refused; otherwise the
\* Manager gets its one auth provider and its parameter mappings
ServiceClients__init__ ==
    /\ pc = "ServiceClients.__init__"
    /\ Enter("ServiceClients.__init__")
    /\ IF credentials = None
       THEN /\ Raise("InvalidCredentials")
            /\ UNCHANGED <<parameters, auth_provider, providers>>
       ELSE /\ providers' = Append(providers,
                   AuthProvider(IF isinstance(credentials, "KeystoneV3Credentials")
                                THEN "KeystoneV3AuthProvider"
                                ELSE "KeystoneV2AuthProvider",
                                credentials, identity_uri, scope, default_params))
            /\ auth_provider' = Len(providers) + 1
            /\ parameters' = client_parameters
            /\ pc' = "_set_compute_clients"
            /\ UNCHANGED error
    /\ UNCHANGED <<CONF, credentials, scope, service, pre_auth, identity_uri,
                   client_parameters, attrs, writes, fetches, log, gap>>

-----------------------------------------------------------------------------
(* The builders, in the order Manager.__init__ calls them (lines 69-74)    *)

\* VolumeOverride changed: a key is replaced whenever the volume mapping has
\* it, whatever its value
VolumeOverrideWhenPresent(params, volume, key) ==
    IF key \in DOMAIN volume
    THEN SetItem(params, key, volume[key])
    ELSE params

\* the optional volume timeouts laid over a deep copy of the compute params
\* (lines 245-250): a key is replaced when the volume value is present and truthy
VolumeOverride(params, volume, key) ==
    IF key \in DOMAIN volume /\ TruthyValue(volume[key])
    THEN SetItem(params, key, volume[key])
    ELSE params

\* lines 179-256
_set_compute_clients ==
    /\ pc = "_set_compute_clients"
    /\ Enter("_set_compute_clients")
    /\ IF "compute" \notin DOMAIN parameters
       THEN /\ Raise("KeyError")
            /\ UNCHANGED <<attrs, writes>>
       ELSE LET params == parameters["compute"]
                built == SetAttrs(attrs, ComputeClients, auth_provider, params)
                count == CountWrites(writes, ComputeClients)
            IN IF "volume" \notin DOMAIN parameters
               THEN \* self.parameters['volume'] at line 248
                    /\ attrs' = built
                    /\ writes' = count
                    /\ Raise("KeyError")
               ELSE LET params_volume ==
                            VolumeOverride(
                                VolumeOverride(params, parameters["volume"],
                                               "build_interval"),
                                parameters["volume"], "build_timeout")
                    IN /\ attrs' = SetAttrs(built, VolumeProxyClients,
                                            auth_provider, params_volume)
                       /\ writes' = CountWrites(count, VolumeProxyClients)
                       /\ pc' = "_set_identity_clients"
                       /\ UNCHANGED error
    /\ UNCHANGED <<CONF, credentials, scope, service, pre_auth, identity_uri,
                   client_parameters, parameters, auth_provider, fetches,
                   log, gap, providers>>

\* lines 258-315: the catalog clients of the identity service
_set_identity_clients ==
    /\ pc = "_set_identity_clients"
    /\ Enter("_set_identity_clients")
    /\ IF "identity" \notin DOMAIN parameters
       THEN /\ Raise("KeyError")
            /\ UNCHANGED <<attrs, writes>>
       ELSE LET params == parameters["identity"]
                params_v2_admin ==
                    SetItem(params, "endpoint_type",
                            "CONF.identity.v2_admin_endpoint_type")
                params_v2_public ==
                    SetItem(params, "endpoint_type",
                            "CONF.identity.v2_public_endpoint_type")
                params_v3 ==
                    SetItem(params, "endpoint_type",
                            "CONF.identity.v3_endpoint_type")
                a1 == SetAttrs(attrs, IdentityV2AdminClients, auth_provider,
                               params_v2_admin)
                a2 == SetAttrs(a1, IdentityV2PublicClients, auth_provider,
                               params_v2_public)
            IN /\ attrs' = SetAttrs(a2, IdentityV3Clients, auth_provider,
                                    params_v3)
               /\ writes' = CountWrites(writes,
                                IdentityV2AdminClients \o IdentityV2PublicClients
                                \o IdentityV3Clients)
               /\ pc' = "token_client"
               /\ UNCHANGED error
    /\ UNCHANGED <<CONF, credentials, scope, service, pre_auth, identity_uri,
                   client_parameters, parameters, auth_provider, fetches,
                   log, gap, providers>>

\* a token client: <cls>(auth_url, **self.default_params); it is given the
\* identity URL and no auth provider
TokenClient(cls, auth_url) ==
    Client(EK("", cls, {<<"auth_url", auth_url>>}), 0, default_params)

\* SetTokenClient changed: an unset identity.uri skips the client silently
SetTokenClientSkipsUnsetUri ==
    /\ pc = "token_client"
    /\ Enter("token_client")
    /\ IF CONF.identity_feature_enabled.api_v2
       THEN IF Truthy(CONF.identity.uri)
            THEN /\ attrs' = SetItem(attrs, "token_client",
                                TokenClient("identity.v2.TokenClient",
                                            CONF.identity.uri))
                 /\ writes' = CountWrites(writes, <<[attr |-> "token_client"]>>)
                 /\ pc' = "token_v3_client"
                 /\ UNCHANGED error
            ELSE /\ pc' = "token_v3_client"
                 /\ UNCHANGED <<attrs, writes, error>>
       ELSE /\ pc' = "token_v3_client"
            /\ UNCHANGED <<attrs, writes, error>>
    /\ UNCHANGED <<CONF, credentials, scope, service, pre_auth, identity_uri,
                   client_parameters, parameters, auth_provider, fetches,
                   log, gap, providers>>

\* lines 320-326 of _set_identity_clients: the v2 token client
SetTokenClient ==
    /\ pc = "token_client"
    /\ Enter("token_client")
    /\ IF CONF.identity_feature_enabled.api_v2
       THEN IF Truthy(CONF.identity.uri)
            THEN /\ attrs' = SetItem(attrs, "token_client",
                                TokenClient("identity.v2.TokenClient",
                                            CONF.identity.uri))
                 /\ writes' = CountWrites(writes, <<[attr |-> "token_client"]>>)
                 /\ pc' = "token_v3_client"
                 /\ UNCHANGED error
            ELSE /\ Raise("InvalidConfiguration")
                 /\ UNCHANGED <<attrs, writes>>
       ELSE /\ pc' = "token_v3_client"
            /\ UNCHANGED <<attrs, writes, error>>
    /\ UNCHANGED <<CONF, credentials, scope, service, pre_auth, identity_uri,
                   client_parameters, parameters, auth_provider, fetches,
                   log, gap, providers>>

\* SetTokenV3Client changed: the v3 client is guarded by the v2 feature flag
SetTokenV3ClientChecksV2Flag ==
    /\ pc = "token_v3_client"
    /\ Enter("token_v3_client")
    /\ IF CONF.identity_feature_enabled.api_v2
       THEN IF Truthy(CONF.identity.uri_v3)
            THEN /\ attrs' = SetItem(attrs, "token_v3_client",
                                TokenClient("identity.v3.V3TokenClient",
                                            CONF.identity.uri_v3))
                 /\ writes' = CountWrites(writes, <<[attr |-> "token_v3_client"]>>)
                 /\ pc' = "_set_volume_clients"
                 /\ UNCHANGED error
            ELSE /\ Raise("InvalidConfiguration")
                 /\ UNCHANGED <<attrs, writes>>
       ELSE /\ pc' = "_set_volume_clients"
            /\ UNCHANGED <<attrs, writes, error>>
    /\ UNCHANGED <<CONF, credentials, scope, service, pre_auth, identity_uri,
                   client_parameters, parameters, auth_provider, fetches,
                   log, gap, providers>>

\* lines 327-333 of _set_identity_clients: the v3 token client
SetTokenV3Client ==
    /\ pc = "token_v3_client"
    /\ Enter("token_v3_client")
    /\ IF CONF.identity_feature_enabled.api_v3
       THEN IF Truthy(CONF.identity.uri_v3)
            THEN /\ attrs' = SetItem(attrs, "token_v3_client",
                                TokenClient("identity.v3.V3TokenClient",
                                            CONF.identity.uri_v3))
                 /\ writes' = CountWrites(writes, <<[attr |-> "token_v3_client"]>>)
                 /\ pc' = "_set_volume_clients"
                 /\ UNCHANGED error
            ELSE /\ Raise("InvalidConfiguration")
                 /\ UNCHANGED <<attrs, writes>>
       ELSE /\ pc' = "_set_volume_clients"
            /\ UNCHANGED <<attrs, writes, error>>
    /\ UNCHANGED <<CONF, credentials, scope, service, pre_auth, identity_uri,
                   client_parameters, parameters, auth_provider, fetches,
                   log, gap, providers>>

\* lines 335-382
_set_volume_clients ==
    /\ pc = "_set_volume_clients"
    /\ Enter("_set_volume_clients")
    /\ IF "volume" \notin DOMAIN parameters
       THEN /\ Raise("KeyError")
            /\ UNCHANGED <<attrs, writes>>
       ELSE LET params == parameters["volume"]
            IN /\ attrs' = SetAttrs(attrs, VolumeClients, auth_provider, params)
               /\ writes' = CountWrites(writes, VolumeClients)
               /\ pc' = "_set_object_storage_clients"
               /\ UNCHANGED error
    /\ UNCHANGED <<CONF, credentials, scope, service, pre_auth, identity_uri,
                   client_parameters, parameters, auth_provider, fetches,
                   log, gap, providers>>

\* lines 384-393
_set_object_storage_clients ==
    /\ pc = "_set_object_storage_clients"
    /\ Enter("_set_object_storage_clients")
    /\ IF "object-storage" \notin DOMAIN parameters
       THEN /\ Raise("KeyError")
            /\ UNCHANGED <<attrs, writes>>
       ELSE LET params == parameters["object-storage"]
            IN /\ attrs' = SetAttrs(attrs, ObjectStorageClients, auth_provider, params)
               /\ writes' = CountWrites(writes, ObjectStorageClients)
               /\ pc' = "_set_image_clients"
               /\ UNCHANGED error
    /\ UNCHANGED <<CONF, credentials, scope, service, pre_auth, identity_uri,
                   client_parameters, parameters, auth_provider, fetches,
                   log, gap, providers>>

\* _set_image_clients changed: service_available.glance is not consulted
_set_image_clients_unguarded ==
    /\ pc = "_set_image_clients"
    /\ Enter("_set_image_clients")
    /\ IF TRUE
       THEN IF "image" \notin DOMAIN parameters
            THEN /\ Raise("KeyError")
                 /\ UNCHANGED <<attrs, writes>>
            ELSE LET params == parameters["image"]
                 IN /\ attrs' = SetAttrs(attrs, ImageClients, auth_provider,
                                         params)
                    /\ writes' = CountWrites(writes, ImageClients)
                    /\ pc' = "_set_network_clients"
                    /\ UNCHANGED error
       ELSE /\ pc' = "_set_network_clients"
            /\ UNCHANGED <<attrs, writes, error>>
    /\ UNCHANGED <<CONF, credentials, scope, service, pre_auth, identity_uri,
                   client_parameters, parameters, auth_provider, fetches,
                   log, gap, providers>>

\* lines 160-177: built only when the image service is available
_set_image_clients ==
    /\ pc = "_set_image_clients"
    /\ Enter("_set_image_clients")
    /\ IF CONF.service_available.glance
       THEN IF "image" \notin DOMAIN parameters
            THEN /\ Raise("KeyError")
                 /\ UNCHANGED <<attrs, writes>>
            ELSE LET params == parameters["image"]
                 IN /\ attrs' = SetAttrs(attrs, ImageClients, auth_provider,
                                         params)
                    /\ writes' = CountWrites(writes, ImageClients)
                    /\ pc' = "_set_network_clients"
                    /\ UNCHANGED error
       ELSE /\ pc' = "_set_network_clients"
            /\ UNCHANGED <<attrs, writes, error>>
    /\ UNCHANGED <<CONF, credentials, scope, service, pre_auth, identity_uri,
                   client_parameters, parameters, auth_provider, fetches,
                   log, gap, providers>>

\* _set_network_clients changed: the clients are built without the provider
_set_network_clients_no_provider ==
    /\ pc = "_set_network_clients"
    /\ Enter("_set_network_clients")
    /\ IF "network" \notin DOMAIN parameters
       THEN /\ Raise("KeyError")
            /\ UNCHANGED <<attrs, writes>>
       ELSE LET params == parameters["network"]
            IN /\ attrs' = SetAttrs(attrs, NetworkClients, 0, params)
               /\ writes' = CountWrites(writes, NetworkClients)
               /\ pc' = "tail"
               /\ UNCHANGED error
    /\ UNCHANGED <<CONF, credentials, scope, service, pre_auth, identity_uri,
                   client_parameters, parameters, auth_provider, fetches,
                   log, gap, providers>>

\* lines 129-158
_set_network_clients ==
    /\ pc = "_set_network_clients"
    /\ Enter("_set_network_clients")
    /\ IF "network" \notin DOMAIN parameters
       THEN /\ Raise("KeyError")
            /\ UNCHANGED <<attrs, writes>>
       ELSE LET params == parameters["network"]
            IN /\ attrs' = SetAttrs(attrs, NetworkClients, auth_provider, params)
               /\ writes' = CountWrites(writes, NetworkClients)
               /\ pc' = "tail"
               /\ UNCHANGED error
    /\ UNCHANGED <<CONF, credentials, scope, service, pre_auth, identity_uri,
                   client_parameters, parameters, auth_provider, fetches,
                   log, gap, providers>>

\* lines 76-97: the clients Manager.__init__ builds itself
TailClients ==
    <<[attr |-> "baremetal_client", cls |-> "baremetal.BaremetalClient",
       kw |-> {<<"service", "CONF.baremetal.catalog_type">>,
               <<"region", "CONF.identity.region">>,
               <<"endpoint_type", "CONF.baremetal.endpoint_type">>},
       params |-> default_params_with_timeout_values],
      [attr |-> "orchestration_client",
       cls |-> "orchestration.OrchestrationClient",
       kw |-> {<<"service", "CONF.orchestration.catalog_type">>,
               <<"region", "CONF.orchestration.region or CONF.identity.region">>,
               <<"endpoint_type", "CONF.orchestration.endpoint_type">>,
               <<"build_interval", "CONF.orchestration.build_interval">>,
               <<"build_timeout", "CONF.orchestration.build_timeout">>},
       params |-> default_params],
      [attr |-> "data_processing_client",
       cls |-> "data_processing.DataProcessingClient",
       kw |-> {<<"service", "CONF.data_processing.catalog_type">>,
               <<"region", "CONF.identity.region">>,
               <<"endpoint_type", "CONF.data_processing.endpoint_type">>},
       params |-> default_params_with_timeout_values],
      [attr |-> "negative_client",
       cls |-> "negative_rest_client.NegativeRestClient",
       kw |-> {<<"service", service>>},
       params |-> default_params]>>

RECURSIVE SetTail(_, _, _)
SetTail(a, list, auth) ==
    IF list = <<>> THEN a
    ELSE SetTail(SetItem(a, Head(list).attr,
                         Client(Head(list), auth, Head(list).params)),
                 Tail(list), auth)

InitTail ==
    /\ pc = "tail"
    /\ Enter("tail")
    /\ attrs' = SetTail(attrs, TailClients, auth_provider)
    /\ writes' = CountWrites(writes, TailClients)
    /\ pc' = "done"
    /\ UNCHANGED <<CONF, credentials, scope, service, pre_auth, identity_uri,
                   client_parameters, parameters, auth_provider, fetches,
                   log, gap, providers, error>>

-----------------------------------------------------------------------------
(* get_auth_provider(credentials, pre_auth, scope)                         *)

\* get_auth_provider changed: null credentials are not refused
get_auth_provider_unchecked(c, p, sc) ==
    /\ pc = "idle"
    /\ credentials' = c
    /\ pre_auth' = p
    /\ scope' = sc
    /\ Enter("get_auth_provider")
    /\ gap' = [gap EXCEPT !.default_params = default_params]
    /\ IF FALSE
       THEN Raise("InvalidCredentials")
       ELSE pc' = "auth_provider_class" /\ UNCHANGED error
    /\ UNCHANGED <<CONF, service, identity_uri, client_parameters, parameters,
                   auth_provider, attrs, writes, fetches, log, providers>>

\* lines 403-408: the default parameters are read, then null credentials
\* are refused
get_auth_provider(c, p, sc) ==
    /\ pc = "idle"
    /\ credentials' = c
    /\ pre_auth' = p
    /\ scope' = sc
    /\ Enter("get_auth_provider")
    /\ gap' = [gap EXCEPT !.default_params = default_params]
    /\ IF c = None
       THEN Raise("InvalidCredentials")
       ELSE pc' = "auth_provider_class" /\ UNCHANGED error
    /\ UNCHANGED <<CONF, service, identity_uri, client_parameters, parameters,
                   auth_provider, attrs, writes, fetches, log, providers>>

\* lines 409-410
SelectProviderClass ==
    /\ pc = "auth_provider_class"
    /\ Enter("get_auth_provider_class")
    /\ LET r == get_auth_provider_class(credentials)
       IN gap' = [gap EXCEPT !.auth_provider_class = r[1], !.auth_url = r[2]]
    /\ pc' = "_auth_provider"
    /\ UNCHANGED <<CONF, credentials, scope, service, pre_auth, identity_uri,
                   client_parameters, parameters, auth_provider, attrs, writes,
                   fetches, log, error, providers>>

\* lines 411-413
ConstructProvider ==
    /\ pc = "_auth_provider"
    /\ Enter("auth_provider_class")
    /\ providers' = Append(providers,
                           AuthProvider(gap.auth_provider_class, credentials,
                                        gap.auth_url, scope, gap.default_params))
    /\ gap' = [gap EXCEPT !._auth_provider = Len(providers) + 1]
    /\ pc' = "pre_auth"
    /\ UNCHANGED <<CONF, credentials, scope, service, pre_auth, identity_uri,
                   client_parameters, parameters, auth_provider, attrs, writes,
                   fetches, log, error>>

\* PreAuth changed: set_auth() is called whatever pre_auth is
PreAuthAlways ==
    /\ pc = "pre_auth"
    /\ IF TRUE
       THEN /\ Enter("set_auth")
            /\ providers' = [providers EXCEPT
                                ![gap._auth_provider].set_auth = @ + 1]
       ELSE UNCHANGED <<trace, providers>>
    /\ pc' = "return"
    /\ UNCHANGED <<CONF, credentials, scope, service, pre_auth, identity_uri,
                   client_parameters, parameters, auth_provider, attrs, writes,
                   fetches, log, error, gap>>

\* lines 414-415: set_auth() on the new provider when pre_auth is true
PreAuth ==
    /\ pc = "pre_auth"
    /\ IF pre_auth
       THEN /\ Enter("set_auth")
            /\ providers' = [providers EXCEPT
                                ![gap._auth_provider].set_auth = @ + 1]
       ELSE UNCHANGED <<trace, providers>>
    /\ pc' = "return"
    /\ UNCHANGED <<CONF, credentials, scope, service, pre_auth, identity_uri,
                   client_parameters, parameters, auth_provider, attrs, writes,
                   fetches, log, error, gap>>

\* line 416
Return ==
    /\ pc = "return"
    /\ pc' = "returned"
    /\ UNCHANGED <<CONF, credentials, scope, service, pre_auth, identity_uri,
                   client_parameters, parameters, auth_provider, attrs, writes,
                   trace, fetches, log, error, gap, providers>>

-----------------------------------------------------------------------------

Next ==
    \/ \E c \in CredentialKinds, svc \in ServiceArgs, sc \in Scopes :
           Manager__init__(c, svc, sc)
    \/ PrepareConfiguration
    \/ ServiceClients__init__
    \/ _set_compute_clients
    \/ _set_identity_clients
    \/ SetTokenClient
    \/ SetTokenV3Client
    \/ _set_volume_clients
    \/ _set_object_storage_clients
    \/ _set_image_clients
    \/ _set_network_clients
    \/ InitTail
    \/ \E c \in CredentialKinds, p \in BOOLEAN, sc \in Scopes :
           get_auth_provider(c, p, sc)
    \/ SelectProviderClass
    \/ ConstructProvider
    \/ PreAuth
    \/ Return

Spec == Init /\ [][Next]_vars

\* the same program, started in the configurations that differ in the volume
\* service's timeouts
InitTiming ==
    /\ CONF \in TimingConfigurations
    /\ pc = "idle"
    /\ credentials = None
    /\ scope = "project"
    /\ service = None
    /\ pre_auth = FALSE
    /\ identity_uri = Unset
    /\ client_parameters = EmptyMap
    /\ parameters = EmptyMap
    /\ auth_provider = 0
    /\ attrs = EmptyMap
    /\ writes = EmptyMap
    /\ trace = <<>>
    /\ fetches = <<>>
    /\ log = <<>>
    /\ error = NoError
    /\ gap = [default_params |-> EmptyMap, auth_provider_class |-> None,
              auth_url |-> Unset, _auth_provider |-> 0]
    /\ providers = <<>>

SpecTiming == InitTiming /\ [][Next]_vars

-----------------------------------------------------------------------------
(* Vocabulary of the properties                                            *)

Entered(f) == \E i \in DOMAIN trace : trace[i] = f
Last(s) == s[Len(s)]
Count(s, x) == Cardinality({i \in DOMAIN s : s[i] = x})
Names(list) == {list[i].attr : i \in DOMAIN list}

\* the running call is Manager(...) / get_auth_provider(...)
ManagerCall == trace # <<>> /\ trace[1] = "Manager.__init__"
ProviderCall == trace # <<>> /\ trace[1] = "get_auth_provider"

TokenAttrs == {"token_client", "token_v3_client"}
ImageAttrs == Names(ImageClients)

\* the steps of Manager.__init__ that assign client attributes, in call order
Builders ==
    <<"_set_compute_clients", "_set_identity_clients", "token_client",
      "token_v3_client", "_set_volume_clients", "_set_object_storage_clients",
      "_set_image_clients", "_set_network_clients", "tail">>

\* the attributes a step assigns when it runs to its end
AttrsOf(b) ==
    CASE b = "_set_compute_clients" ->
             Names(ComputeClients) \cup Names(VolumeProxyClients)
      [] b = "_set_identity_clients" ->
             Names(IdentityV2AdminClients) \cup Names(IdentityV2PublicClients)
             \cup Names(IdentityV3Clients)
      [] b = "token_client" -> {"token_client"}
      [] b = "token_v3_client" -> {"token_v3_client"}
      [] b = "_set_volume_clients" -> Names(VolumeClients)
      [] b = "_set_object_storage_clients" -> Names(ObjectStorageClients)
      [] b = "_set_image_clients" -> ImageAttrs
      [] b = "_set_network_clients" -> Names(NetworkClients)
      [] b = "tail" -> Names(TailClients)
      [] OTHER -> {}

\* the steps that come after the identity builder
AfterIdentity ==
    {"_set_volume_clients", "_set_object_storage_clients", "_set_image_clients",
     "_set_network_clients", "tail"}

-----------------------------------------------------------------------------
(* C1: Manager(credentials = None) ends in InvalidCredentials, raised by   *)
(* the superclass constructor before any builder has run: while            *)
(* construction is under way and when the error is raised, no client       *)
(* attribute and no auth provider has been set.                            *)
C1_NullCredentialsRaiseBeforeAnyClient ==
    (ManagerCall /\ credentials = None) =>
        /\ pc \in {"_prepare_configuration", "ServiceClients.__init__", "raised"}
        /\ pc = "raised" <=> error = "InvalidCredentials"
        /\ error \in {NoError, "InvalidCredentials"}
        /\ DOMAIN attrs = {}
        /\ auth_provider = 0
        /\ providers = <<>>
        /\ \A i \in DOMAIN Builders : ~Entered(Builders[i])

C1_Witness ==
    /\ ManagerCall
    /\ credentials = None
    /\ pc = "raised"
    /\ error = "InvalidCredentials"
    /\ Last(trace) = "ServiceClients.__init__"

-----------------------------------------------------------------------------
(* C2 as stated: after a successful construction every client attribute,   *)
(* the token clients included, holds a client that was given the Manager's *)
(* auth provider.                                                          *)
C2_EveryClientSharesTheProvider ==
    (ManagerCall /\ pc = "done") =>
        /\ auth_provider # 0
        /\ \A n \in DOMAIN attrs : attrs[n].auth = auth_provider

(* C2 amended: a Manager constructs exactly one auth provider, and every   *)
(* client it has constructed other than token_client and token_v3_client   *)
(* was given that provider; the two token clients are built from the       *)
(* identity URL of their version and the default parameters, and are given *)
(* no auth provider.                                                       *)
C2_AllButTokenClientsShareTheProvider ==
    ManagerCall =>
        /\ Len(providers) <= 1
        /\ auth_provider = Len(providers)
        /\ \A n \in DOMAIN attrs \ TokenAttrs :
               attrs[n].auth = auth_provider /\ auth_provider # 0
        /\ "token_client" \in DOMAIN attrs =>
               /\ attrs["token_client"].auth = 0
               /\ attrs["token_client"].kw = {<<"auth_url", CONF.identity.uri>>}
               /\ attrs["token_client"].params = default_params
        /\ "token_v3_client" \in DOMAIN attrs =>
               /\ attrs["token_v3_client"].auth = 0
               /\ attrs["token_v3_client"].kw =
                      {<<"auth_url", CONF.identity.uri_v3>>}
               /\ attrs["token_v3_client"].params = default_params

C2_Witness ==
    /\ ManagerCall
    /\ pc = "done"
    /\ TokenAttrs \subseteq DOMAIN attrs
    /\ ImageAttrs \subseteq DOMAIN attrs
    /\ Names(TailClients) \subseteq DOMAIN attrs
    /\ attrs["negative_client"].auth = auth_provider
    /\ auth_provider = 1

-----------------------------------------------------------------------------
(* C6: get_auth_provider_class gives the v3 provider with identity.uri_v3  *)
(* for KeystoneV3Credentials, and the v2 provider with identity.uri for    *)
(* every other credentials value, in get_auth_provider and in              *)
(* Manager.__init__ alike.                                                 *)
C6_ProviderClassMatchesUrl ==
    /\ (ProviderCall /\ pc \in {"_auth_provider", "pre_auth", "return", "returned"}) =>
           IF credentials = "KeystoneV3Credentials"
           THEN /\ gap.auth_provider_class = "KeystoneV3AuthProvider"
                /\ gap.auth_url = CONF.identity.uri_v3
           ELSE /\ gap.auth_provider_class = "KeystoneV2AuthProvider"
                /\ gap.auth_url = CONF.identity.uri
    /\ ManagerCall =>
           identity_uri = IF credentials = "KeystoneV3Credentials"
                          THEN CONF.identity.uri_v3
                          ELSE CONF.identity.uri

C6_Witness ==
    /\ ProviderCall
    /\ pc = "returned"
    /\ credentials = "KeystoneV3Credentials"
    /\ CONF.identity.uri # CONF.identity.uri_v3
    /\ gap.auth_url = CONF.identity.uri_v3
    /\ gap.auth_provider_class = "KeystoneV3AuthProvider"

-----------------------------------------------------------------------------
(* C8: when get_auth_provider is about to return and once it has returned, *)
(* the provider it returns is the one object it constructed, of the class  *)
(* and with the URL get_auth_provider_class chose for the credentials, and *)
(* set_auth has been called on it once if pre_auth is true and never if    *)
(* pre_auth is false.                                                      *)
C8_PreAuthIffRequested ==
    (ProviderCall /\ pc \in {"return", "returned"}) =>
        /\ credentials # None
        /\ Len(providers) = 1
        /\ gap._auth_provider = 1
        /\ Count(trace, "get_auth_provider_class") = 1
        /\ LET p == providers[gap._auth_provider]
           IN /\ p.cls = (IF credentials = "KeystoneV3Credentials"
                          THEN "KeystoneV3AuthProvider"
                          ELSE "KeystoneV2AuthProvider")
              /\ p.auth_url = (IF credentials = "KeystoneV3Credentials"
                               THEN CONF.identity.uri_v3
                               ELSE CONF.identity.uri)
              /\ p.credentials = credentials
              /\ p.scope = scope
              /\ p.set_auth = (IF pre_auth THEN 1 ELSE 0)
              /\ Count(trace, "set_auth") = p.set_auth

C8_Witness ==
    /\ ProviderCall
    /\ pc = "returned"
    /\ pre_auth
    /\ providers[gap._auth_provider].set_auth = 1
    /\ Last(trace) = "set_auth"

-----------------------------------------------------------------------------
(* C9: get_auth_provider(None, pre_auth, scope) raises InvalidCredentials  *)
(* at once: no provider is constructed, get_auth_provider_class is not     *)
(* called and set_auth is not called, for either value of pre_auth.        *)
C9_NullCredentialsFailFast ==
    (ProviderCall /\ credentials = None) =>
        /\ pc = "raised"
        /\ error = "InvalidCredentials"
        /\ providers = <<>>
        /\ gap._auth_provider = 0
        /\ ~Entered("get_auth_provider_class")
        /\ ~Entered("auth_provider_class")
        /\ ~Entered("set_auth")

C9_Witness ==
    /\ ProviderCall
    /\ credentials = None
    /\ pre_auth
    /\ pc = "raised"
    /\ error = "InvalidCredentials"

-----------------------------------------------------------------------------
\* the services that have no configuration section
Missing == Services \ CONF.sections

\* the parameter mappings a step looks up in self.parameters
Reads(b) ==
    CASE b = "_set_compute_clients" -> {"compute", "volume"}
      [] b = "_set_identity_clients" -> {"identity"}
      [] b = "_set_volume_clients" -> {"volume"}
      [] b = "_set_object_storage_clients" -> {"object-storage"}
      [] b = "_set_image_clients" ->
             IF CONF.service_available.glance THEN {"image"} ELSE {}
      [] b = "_set_network_clients" -> {"network"}
      [] OTHER -> {}

\* the modules, in iteration order, whose service has no configuration section
UnknownModules ==
    LET unknown(m) == SplitFirst(m) \in Missing
    IN SelectSeq(CONF.order, unknown)

\* _prepare_configuration has returned
Prepared == ManagerCall /\ pc # "_prepare_configuration"

\* what _prepare_configuration does about a service without configuration:
\* one warning per module of the service, no entry for it, every other
\* service still resolved, and control passes on to the superclass constructor
C3_PrepareOmitsAndContinues ==
    Prepared =>
        /\ DOMAIN client_parameters = CONF.sections
        /\ \A s \in CONF.sections : client_parameters[s] = service_client_config(s)
        /\ log = UnknownModules
        /\ Entered("ServiceClients.__init__") \/ pc = "ServiceClients.__init__"
        /\ error # "UnknownServiceClient"

(* C3 as stated: _prepare_configuration warns, omits and continues, and a  *)
(* missing configuration never aborts the construction of the Manager.     *)
C3_MissingConfigurationNonFatal ==
    /\ C3_PrepareOmitsAndContinues
    /\ ManagerCall => error # "KeyError"

(* C3 amended: _prepare_configuration logs a warning, leaves the service   *)
(* out of the mapping and goes on with the remaining services, and itself  *)
(* never fails; the Manager's construction then fails with a KeyError in   *)
(* the first builder that looks up a missing service's mapping             *)
(* (compute reads compute and volume; image reads image only when glance   *)
(* is available), no later builder runs and none of their clients is       *)
(* constructed; construction completes only when no builder looks up a     *)
(* missing mapping.                                                        *)
C3_MissingConfigurationFailsFirstReader ==
    /\ C3_PrepareOmitsAndContinues
    /\ ManagerCall =>
        /\ error = "KeyError" <=> Reads(Last(trace)) \cap Missing # {}
        /\ error = "KeyError" => pc = "raised"
        /\ \A i \in DOMAIN Builders :
               Entered(Builders[i]) /\ Builders[i] # Last(trace)
                   => Reads(Builders[i]) \cap Missing = {}
        /\ \A i \in DOMAIN Builders :
               ~Entered(Builders[i]) => AttrsOf(Builders[i]) \cap DOMAIN attrs = {}
        /\ pc = "done" =>
               Missing \subseteq
                   (IF CONF.service_available.glance THEN {} ELSE {"image"})

C3_Witness ==
    /\ ManagerCall
    /\ Missing = {"network"}
    /\ log = <<"network">>
    /\ "network" \notin DOMAIN parameters
    /\ pc = "raised"
    /\ error = "KeyError"
    /\ Last(trace) = "_set_network_clients"
    /\ "object_client" \in DOMAIN attrs
    /\ "baremetal_client" \notin DOMAIN attrs

-----------------------------------------------------------------------------
\* identity v2 is enabled and identity.uri is unset
V2EnabledNoUri ==
    CONF.identity_feature_enabled.api_v2 /\ ~Truthy(CONF.identity.uri)

(* C4: with identity v2 enabled and identity.uri unset, a construction     *)
(* never completes, sets neither token client and runs no builder that     *)
(* comes after the identity builder; when it gets as far as the v2 token   *)
(* check, that check raises InvalidConfiguration.                          *)
C4_V2EnabledWithoutUriAborts ==
    (ManagerCall /\ V2EnabledNoUri) =>
        /\ pc \notin {"done", "token_v3_client"}
        /\ TokenAttrs \cap DOMAIN attrs = {}
        /\ ~Entered("token_v3_client")
        /\ \A b \in AfterIdentity :
               ~Entered(b) /\ AttrsOf(b) \cap DOMAIN attrs = {}
        /\ Entered("token_client") =>
               /\ pc = "raised"
               /\ error = "InvalidConfiguration"
               /\ Last(trace) = "token_client"
        /\ error = "InvalidConfiguration" => Last(trace) = "token_client"

C4_Witness ==
    /\ ManagerCall
    /\ V2EnabledNoUri
    /\ Entered("token_client")
    /\ pc = "raised"
    /\ error = "InvalidConfiguration"
    /\ "groups_client" \in DOMAIN attrs
    /\ CONF.identity_feature_enabled.api_v3
    /\ Truthy(CONF.identity.uri_v3)

-----------------------------------------------------------------------------
\* the number of modules of tempest_modules() that belong to service s
Versions(s) ==
    Cardinality({i \in DOMAIN CONF.order : SplitFirst(CONF.order[i]) = s})

(* C5 as stated: one construction calls config.service_client_config       *)
(* exactly once for each unversioned service name, whether or not the call *)
(* succeeds; results are stored under the unversioned name and             *)
(* _prepare_configuration runs once.                                       *)
C5_EachServiceFetchedOnce ==
    Prepared =>
        /\ \A s \in Services : Count(fetches, s) = 1
        /\ DOMAIN client_parameters \subseteq Services
        /\ Count(trace, "_prepare_configuration") = 1

(* C5 amended: for a service that has configuration the mapping is fetched *)
(* exactly once, whatever the number of its versioned modules, and stored  *)
(* under the unversioned name; for a service without configuration nothing *)
(* is stored and the fetch is attempted once for every versioned module of *)
(* the service, each attempt failing; _prepare_configuration runs exactly  *)
(* once per construction and nothing is fetched after it.                  *)
C5_FetchedOnceWhenFound ==
    /\ Prepared =>
        /\ \A s \in CONF.sections : Count(fetches, s) = 1
        /\ \A s \in Missing : Count(fetches, s) = Versions(s)
        /\ Range(fetches) \subseteq Services
        /\ DOMAIN client_parameters = CONF.sections
        /\ Count(trace, "_prepare_configuration") = 1
    /\ ~Prepared => fetches = <<>> /\ ~Entered("_prepare_configuration")

C5_Witness ==
    /\ ManagerCall
    /\ pc = "done"
    /\ Count(fetches, "volume") = 1
    /\ Versions("volume") = 3
    /\ Count(fetches, "image") = 2
    /\ "image" \in Missing

-----------------------------------------------------------------------------
\* the image builder has run to its end
ImageBuilderDone ==
    /\ Entered("_set_image_clients")
    /\ ~(pc = "raised" /\ Last(trace) = "_set_image_clients")

(* C7: with service_available.glance false no image-family attribute is    *)
(* ever set and the image builder returns without looking up the 'image'   *)
(* mapping (it cannot fail, even when that mapping is missing), so the     *)
(* network builder and the tail still run and a construction that          *)
(* completes has run every other builder; with glance true, the image      *)
(* builder sets all seven attributes when it runs to its end.              *)
C7_ImageClientsOnlyWhenAvailable ==
    ManagerCall =>
        /\ ~CONF.service_available.glance =>
               /\ ImageAttrs \cap DOMAIN attrs = {}
               /\ Entered("_set_image_clients") =>
                      /\ ImageBuilderDone
                      /\ error # "KeyError" \/ Last(trace) # "_set_image_clients"
                      /\ pc = "_set_network_clients"
                            \/ Entered("_set_network_clients")
               /\ pc = "done" =>
                      /\ \A i \in DOMAIN Builders : Entered(Builders[i])
                      /\ \A i \in DOMAIN Builders :
                             Builders[i] \notin {"_set_image_clients",
                                                 "token_client", "token_v3_client"}
                                 => AttrsOf(Builders[i]) \subseteq DOMAIN attrs
        /\ CONF.service_available.glance =>
               /\ ImageBuilderDone => ImageAttrs \subseteq DOMAIN attrs
               /\ ~ImageBuilderDone => ImageAttrs \cap DOMAIN attrs = {}

C7_Witness ==
    /\ ManagerCall
    /\ ~CONF.service_available.glance
    /\ "image" \in Missing
    /\ pc = "done"
    /\ "network_versions_client" \in DOMAIN attrs
    /\ "negative_client" \in DOMAIN attrs
    /\ "image_client" \notin DOMAIN attrs

-----------------------------------------------------------------------------
\* the outcome of one token check: version enabled, URI, attribute, step
TokenCheck(enabled, uri, attr, step) ==
    /\ attr \in DOMAIN attrs => enabled /\ Truthy(uri)
    /\ Entered(step) =>
           /\ (enabled /\ Truthy(uri)) <=> attr \in DOMAIN attrs
           /\ (enabled /\ ~Truthy(uri)) <=>
                  (pc = "raised" /\ error = "InvalidConfiguration"
                   /\ Last(trace) = step)
           /\ ~enabled => ~(pc = "raised" /\ Last(trace) = step)

(* C10: in the token section of _set_identity_clients each version's token *)
(* client is set only if the version is enabled and its URI is set, a      *)
(* disabled version never raises, an enabled version without URI raises    *)
(* InvalidConfiguration; the v2 check comes first, so a v3 failure leaves  *)
(* token_client as the v2 check left it and a v2 failure means the v3      *)
(* check is never made.                                                    *)
C10_TokenClientsPerVersion ==
    ManagerCall =>
        /\ TokenCheck(CONF.identity_feature_enabled.api_v2, CONF.identity.uri,
                      "token_client", "token_client")
        /\ TokenCheck(CONF.identity_feature_enabled.api_v3, CONF.identity.uri_v3,
                      "token_v3_client", "token_v3_client")
        /\ \A i \in DOMAIN trace :
               trace[i] = "token_v3_client" => i > 1 /\ trace[i - 1] = "token_client"
        /\ (pc = "raised" /\ Last(trace) = "token_v3_client") =>
               ("token_client" \in DOMAIN attrs
                    <=> CONF.identity_feature_enabled.api_v2)
        /\ (pc = "raised" /\ Last(trace) = "token_client") =>
               ~Entered("token_v3_client")
        /\ error = "InvalidConfiguration" => Last(trace) \in TokenAttrs

C10_Witness ==
    /\ ManagerCall
    /\ pc = "raised"
    /\ error = "InvalidConfiguration"
    /\ Last(trace) = "token_v3_client"
    /\ "token_client" \in DOMAIN attrs
    /\ "token_v3_client" \notin DOMAIN attrs

-----------------------------------------------------------------------------
\* the steps of Manager.__init__ entered so far that assign attributes, in order
RECURSIVE StepsEntered(_)
StepsEntered(t) ==
    IF t = <<>> THEN <<>>
    ELSE IF Head(t) \in Range(Builders)
         THEN <<Head(t)>> \o StepsEntered(Tail(t))
         ELSE StepsEntered(Tail(t))

(* C11: during one Manager construction every client attribute is assigned *)
(* at most once; each attribute that is set was assigned by exactly one    *)
(* builder, the attribute sets of different builders do not meet, and the  *)
(* builders run in the order compute, identity, volume, object-storage,    *)
(* image, network, tail of __init__, each at most once.                    *)
C11_EachAttributeAssignedOnce ==
    ManagerCall =>
        /\ DOMAIN writes = DOMAIN attrs
        /\ \A n \in DOMAIN writes : writes[n] = 1
        /\ \A n \in DOMAIN attrs :
               Cardinality({i \in DOMAIN Builders :
                                Entered(Builders[i]) /\ n \in AttrsOf(Builders[i])}) = 1
        /\ \A i, j \in DOMAIN Builders :
               (i # j /\ Entered(Builders[i]) /\ Entered(Builders[j]))
                   => AttrsOf(Builders[i]) \cap AttrsOf(Builders[j]) = {}
        /\ StepsEntered(trace) = SubSeq(Builders, 1, Len(StepsEntered(trace)))

C11_Witness ==
    /\ ManagerCall
    /\ pc = "done"
    /\ StepsEntered(trace) = Builders
    /\ Cardinality(DOMAIN attrs) = 105
    /\ \A n \in DOMAIN attrs : writes[n] = 1

-----------------------------------------------------------------------------
\* the two optional timeouts
TimeoutKeys == {"build_interval", "build_timeout"}

\* params is the mapping `base` with exactly the keys of `replaced` changed
SameExcept(params, base, replaced) ==
    /\ DOMAIN params = DOMAIN base
    /\ \A k \in DOMAIN base \ replaced : params[k] = base[k]

\* every client of `list` built so far received the identity parameters with
\* only endpoint_type replaced, by `endpoint_type`
IdentityGroup(list, endpoint_type) ==
    \A n \in Names(list) \cap DOMAIN attrs :
        /\ SameExcept(attrs[n].params, parameters["identity"], {"endpoint_type"})
        /\ attrs[n].params.endpoint_type = endpoint_type

(* C12: once self.parameters is set, no builder changes it: each mapping   *)
(* stays as it was resolved. Every compute client other than the three     *)
(* volume-proxy clients received the compute mapping itself; the three     *)
(* volume-proxy clients received it with build_interval and build_timeout  *)
(* each replaced by the volume mapping's value exactly when that value is  *)
(* present and truthy (missing, None and 0 keep the compute value); the    *)
(* three identity groups received the identity mapping with only           *)
(* endpoint_type replaced.                                                 *)
C12_OverridesOnlyOnCopies ==
    (ManagerCall /\ auth_provider # 0) =>
        /\ parameters = client_parameters
        /\ \A s \in DOMAIN parameters : parameters[s] = service_client_config(s)
        /\ {"compute", "identity"} \subseteq DOMAIN parameters
        /\ parameters["compute"].build_interval = PyInt(1)
        /\ parameters["compute"].build_timeout = PyInt(300)
        /\ parameters["identity"].endpoint_type = "publicURL"
        /\ \A n \in Names(ComputeClients) \cap DOMAIN attrs :
               attrs[n].params = parameters["compute"]
        /\ \A n \in Names(VolumeProxyClients) \cap DOMAIN attrs :
               /\ "volume" \in DOMAIN parameters
               /\ SameExcept(attrs[n].params, parameters["compute"], TimeoutKeys)
               /\ attrs[n].params.build_interval =
                      (IF CONF.volume.build_interval = "set"
                       THEN PyInt(5) ELSE PyInt(1))
               /\ attrs[n].params.build_timeout =
                      (IF CONF.volume.build_timeout = "set"
                       THEN PyInt(600) ELSE PyInt(300))
               /\ \A k \in TimeoutKeys :
                      CONF.volume[k] = "set" =>
                          attrs[n].params[k] = parameters["volume"][k]
        /\ IdentityGroup(IdentityV2AdminClients,
                         "CONF.identity.v2_admin_endpoint_type")
        /\ IdentityGroup(IdentityV2PublicClients,
                         "CONF.identity.v2_public_endpoint_type")
        /\ IdentityGroup(IdentityV3Clients, "CONF.identity.v3_endpoint_type")

C12_Witness ==
    /\ ManagerCall
    /\ pc = "done"
    /\ CONF.volume.build_interval = "set"
    /\ CONF.volume.build_timeout = "None"
    /\ parameters["volume"].build_timeout = PyNone
    /\ attrs["volumes_extensions_client"].params.build_interval = PyInt(5)
    /\ attrs["snapshots_extensions_client"].params.build_timeout = PyInt(300)
    /\ attrs["servers_client"].params.build_interval = PyInt(1)
    /\ attrs["users_public_client"].params.endpoint_type =
           "CONF.identity.v2_public_endpoint_type"
    /\ parameters["identity"].endpoint_type = "publicURL"

====
